---- MODULE Spec2Model ----
(***************************************************************************)
(* Model of src/src/voxelize.py: voxelize_mesh(mesh, density), and of one  *)
(* script run of src/app.py main() (SpecApp).                              *)
(*                                                                         *)
(* Numbers.  The code computes in float64.  The model is fixed point: a    *)
(* real value v is held as the integer v / 0.5, so Half is the number 0.5 *)
(* and One is 1.0.  Every density of the model is a whole multiple of     *)
(* 1.0 and every coordinate a whole multiple of 0.5; on such values, of   *)
(* the magnitudes used here, every float64 operation of the code is       *)
(* exact, and the model computes the same numbers.                        *)
(*                                                                         *)
(* The point-in-mesh test (select_enclosed_points) is not code of the     *)
(* repository.  Under Spec it answers with any mask of the right length;  *)
(* under SpecFixed it is the point-wise test of a fixed convex surface.   *)
(***************************************************************************)
EXTENDS Integers, Sequences, FiniteSets

VARIABLES
    pc,           \* position of the current call of voxelize_mesh
    mesh,         \* argument: the surface mesh
    density,      \* argument, after density = float(density)
    bounds,       \* local: <<xmin, xmax, ymin, ymax, zmin, zmax>>, <<>> before it is read
    x, y, z,      \* locals: the three axis sequences
    grid_points,  \* local: the sample grid, one <<x, y, z>> per row
    mask,         \* local: the classifier's answer, one boolean per grid point
    interior,     \* local: grid_points[mask]
    result,       \* the PolyData returned, read when pc = "returned"
    err,          \* the exception raised, "" when none
    surface,      \* the fixed surface of the repeated-call driver
    log,          \* the driver's record of finished calls
    cube_vertices,  \* module global _CUBE_VERTICES, an array any code may write
    cube_faces,     \* module global _CUBE_FACES
    ui_pc,          \* app.py main(): position of the script run
    regions_to_render,  \* main(): the regions to show, in order
    use_voxels,     \* main(): the "Enable Voxel Data View" toggle
    show_glass_brain,   \* main(): the "Show Glass Brain Context" toggle
    vox_fails,      \* the regions for which mesh.voxelize raises
    geom_fails,     \* the regions for which extract_geometry / triangulate raises
    root_fails,     \* whether voxelizing the whole-brain mesh raises
    loop_i,         \* main(): index of the region the running loop is at
    measured,       \* main(): the regions whose volume is in the sidebar totals
    fig,            \* main(): the traces added to the figure, by name
    st_errors,      \* the st.error messages shown, by subject
    plotted,        \* whether st.plotly_chart(fig) has run
    uncaught        \* the region whose exception left main(), 0 when none

module_globals == <<cube_vertices, cube_faces>>

ui == <<ui_pc, regions_to_render, use_voxels, show_glass_brain, vox_fails, geom_fails,
        root_fails, loop_i, measured, fig, st_errors, plotted, uncaught>>

vars == <<pc, mesh, density, bounds, x, y, z, grid_points, mask, interior,
          result, err, surface, log, module_globals, ui>>

locals == <<bounds, x, y, z, grid_points, mask, interior>>

(***************************************************************************)
(* Bounds of the model.                                                    *)
(***************************************************************************)
\* largest density, in multiples of 1.0
MaxDensity == 3
\* largest bounding-box extent of an arbitrary mesh, in multiples of 0.5
MaxExtent == 3
\* largest sample grid for which every classifier mask is enumerated
MaxGrid == 8
\* largest extent of a convex surface, in multiples of 0.5
MaxSize == 4
\* number of calls the repeated-call driver makes
MaxCalls == 2
\* largest number of regions to render in one script run
MaxRegions == 3

(***************************************************************************)
(* Fixed-point arithmetic.                                                 *)
(***************************************************************************)
\* the literal 0.5 of the code
Half == 1

One == 2 * Half

\* product of two fixed-point numbers (exact on the model's values)
Mul(a, b) == (a * b) \div One

\* ceil(a / b) for b > 0
CeilDiv(a, b) == -((-a) \div b)

Max(a, b) == IF a >= b THEN a ELSE b

Abs(a) == IF a >= 0 THEN a ELSE -a

VecAdd(p, q) == <<p[1] + q[1], p[2] + q[2], p[3] + q[3]>>

(***************************************************************************)
(* Module-level templates.                                                 *)
(***************************************************************************)
\* _CUBE_VERTICES: the unit cube, one row per corner
CUBE_VERTICES ==
    << <<0, 0, 0>>, <<One, 0, 0>>, <<One, One, 0>>, <<0, One, 0>>,
       <<0, 0, One>>, <<One, 0, One>>, <<One, One, One>>, <<0, One, One>> >>

\* _CUBE_FACES: 12 triangles, each row three 0-based corner indices
CUBE_FACES ==
    << <<0, 1, 2>>, <<0, 2, 3>>, <<4, 5, 6>>, <<4, 6, 7>>,
       <<0, 5, 1>>, <<0, 4, 5>>, <<3, 2, 6>>, <<3, 6, 7>>,
       <<0, 3, 7>>, <<0, 7, 4>>, <<1, 5, 6>>, <<1, 6, 2>> >>

\* pv.PolyData(): no points, no faces
EmptyPolyData == [points |-> <<>>, faces |-> <<>>]

\* a mesh: its shape, its bounding box (mesh.bounds) and, for the point-wise test,
\* whether a point on the surface itself counts as enclosed
NoMesh == [shape |-> "none", bounds |-> <<>>, on_surface |-> FALSE]

(***************************************************************************)
(* The steps of voxelize_mesh as operators.                                *)
(***************************************************************************)
\* mutant: the check lets a zero density through
DensityInvalidStrict(d) == d < 0

\* line 73: the parameter check
DensityInvalid(d) == d <= 0

\* np.arange(start, stop, step) for step > 0
Arange(start, stop, step) ==
    [i \in 1..Max(0, CeilDiv(stop - start, step)) |-> start + (i - 1) * step]

\* mutant: the stop of the range without its half step
AxisNoPad(lo, hi, d) == Arange(lo, hi, d)

\* mutant: the samples are cell centres, half a step inside the box
AxisCentred(lo, hi, d) == Arange(lo + Mul(d, Half), hi + Mul(d, Half), d)

\* lines 80-82: one axis of the grid
Axis(lo, hi, d) == Arange(lo, hi + Mul(d, Half), d)

\* mutant: meshgrid(indexing="xy"), whose first axis runs over y
GridPointsXY(xs, ys, zs) ==
    LET nx == Len(xs)
        nz == Len(zs)
    IN  [t \in 1..(nx * Len(ys) * nz) |->
            <<xs[(((t - 1) \div nz) % nx) + 1],
              ys[((t - 1) \div (nx * nz)) + 1],
              zs[((t - 1) % nz) + 1]>>]

\* lines 86-87: meshgrid(indexing="ij"), ravel, column_stack
GridPoints(xs, ys, zs) ==
    LET ny == Len(ys)
        nz == Len(zs)
    IN  [t \in 1..(Len(xs) * ny * nz) |->
            <<xs[((t - 1) \div (ny * nz)) + 1],
              ys[(((t - 1) \div nz) % ny) + 1],
              zs[((t - 1) % nz) + 1]>>]

\* mutant: the mask is not applied
SelectAll(points, m) == points

\* line 93: boolean-mask indexing keeps the selected rows in order
Select(points, m) ==
    LET picked == {t \in 1..Len(points) : m[t]}
        nth(r) == CHOOSE t \in picked : Cardinality({s \in picked : s <= t}) = r
    IN  [r \in 1..Cardinality(picked) |-> points[nth(r)]]

\* mutant: the template is scaled without being centred
TemplateVertsUncentred(d) ==
    [c \in 1..8 |-> [a \in 1..3 |-> Mul(cube_vertices[c][a], d)]]

\* mutant: the centring is done in place (_CUBE_VERTICES -= 0.5)
CentredInPlace(cv) == [c \in 1..8 |-> [a \in 1..3 |-> cv[c][a] - Half]]

\* line 101: _CUBE_VERTICES - 0.5 builds a new array; the module's own is as it was
AfterCentring(cv) == cv

\* line 101: the template cube, centred and scaled
TemplateVerts(d) ==
    [c \in 1..8 |-> [a \in 1..3 |-> Mul(cube_vertices[c][a] - Half, d)]]

\* lines 104-106: broadcast add, reshaped to (n_voxels * 8, 3)
AllPoints(inter, d) ==
    [t \in 1..(8 * Len(inter)) |->
        VecAdd(TemplateVerts(d)[((t - 1) % 8) + 1], inter[((t - 1) \div 8) + 1])]

\* mutant: the offset steps by the triangle count instead of the vertex count
OffsetByFaces(i) == 12 * i

\* line 109: offsets[i] for the 0-based voxel index i
Offset(i) == 8 * i

\* lines 110-111: faces of every cube, reshaped to (n_voxels * 12, 3)
GlobalFaces(n) ==
    [t \in 1..(12 * n) |->
        [a \in 1..3 |-> cube_faces[((t - 1) % 12) + 1][a] + Offset((t - 1) \div 12)]]

\* mutant: the count column is left out
FacesFlatNoCounts(gf) ==
    [t \in 1..(3 * Len(gf)) |-> gf[((t - 1) \div 3) + 1][((t - 1) % 3) + 1]]

\* lines 114-116: [3, i, j, k, 3, i, j, k, ...]
FacesFlat(gf) ==
    [t \in 1..(4 * Len(gf)) |->
        IF (t - 1) % 4 = 0 THEN 3 ELSE gf[((t - 1) \div 4) + 1][(t - 1) % 4]]

\* lines 95-118: the mesh built from the interior points
BuildMesh(inter, d) ==
    IF Len(inter) = 0
    THEN EmptyPolyData
    ELSE [points |-> AllPoints(inter, d),
          faces |-> FacesFlat(GlobalFaces(Len(inter)))]

(***************************************************************************)
(* Reading a PolyData: its vertices and triangles.                         *)
(***************************************************************************)
NPoints(pd) == Len(pd.points)

NTriangles(pd) == Len(pd.faces) \div 4

\* triangle t (1-based) as its three vertex indices
Triangle(pd, t) ==
    <<pd.faces[4 * (t - 1) + 2], pd.faces[4 * (t - 1) + 3], pd.faces[4 * (t - 1) + 4]>>

(***************************************************************************)
(* Inputs.                                                                 *)
(***************************************************************************)
PositiveDensities == {One * i : i \in 1..MaxDensity}

Densities == {-One, 0} \cup PositiveDensities

MinCorners == {<<0, 0, 0>>, <<-1, 2, -3>>}

\* meshes of any shape, known by their bounding box only
BoxBounds(lo, e) == <<lo[1], lo[1] + e[1], lo[2], lo[2] + e[2], lo[3], lo[3] + e[3]>>

\* a PolyData without points reports the bounds (1, -1, 1, -1, 1, -1)
EmptyBounds == <<One, -One, One, -One, One, -One>>

AnyMeshes ==
    {[shape |-> "any", bounds |-> BoxBounds(lo, e), on_surface |-> FALSE] :
        lo \in MinCorners, e \in (0..MaxExtent) \X (0..MaxExtent) \X (0..MaxExtent)}
    \cup {[shape |-> "any", bounds |-> EmptyBounds, on_surface |-> FALSE]}

GridCount(m, d) ==
    Len(Axis(m.bounds[1], m.bounds[2], d)) * Len(Axis(m.bounds[3], m.bounds[4], d))
        * Len(Axis(m.bounds[5], m.bounds[6], d))

Masks(n) == [1..n -> BOOLEAN]

(***************************************************************************)
(* Actions: one call of voxelize_mesh, step by step.                       *)
(***************************************************************************)
\* the module as imported, and no script run of the app
Idle ==
    /\ cube_vertices = CUBE_VERTICES
    /\ cube_faces = CUBE_FACES
    /\ ui_pc = "off"
    /\ regions_to_render = <<>>
    /\ use_voxels = FALSE
    /\ show_glass_brain = FALSE
    /\ vox_fails = {}
    /\ geom_fails = {}
    /\ root_fails = FALSE
    /\ loop_i = 0
    /\ measured = <<>>
    /\ fig = <<>>
    /\ st_errors = <<>>
    /\ plotted = FALSE
    /\ uncaught = 0

Init ==
    /\ pc = "idle"
    /\ mesh = NoMesh
    /\ density = 0
    /\ bounds = <<>>
    /\ x = <<>>
    /\ y = <<>>
    /\ z = <<>>
    /\ grid_points = <<>>
    /\ mask = <<>>
    /\ interior = <<>>
    /\ result = EmptyPolyData
    /\ err = ""
    /\ surface = NoMesh
    /\ log = <<>>
    /\ Idle

\* a caller invokes voxelize_mesh(m, d)
Call(m, d) ==
    /\ pc = "idle"
    /\ IF d > 0 THEN GridCount(m, d) <= MaxGrid ELSE TRUE
    /\ pc' = "entered"
    /\ mesh' = m
    /\ density' = d
    /\ UNCHANGED <<locals, result, err, surface, log>>
    /\ UNCHANGED <<module_globals, ui>>

\* lines 72-74
CheckDensity ==
    /\ pc = "entered"
    /\ IF DensityInvalid(density)
       THEN /\ pc' = "raised"
            /\ err' = "ValueError: density must be positive"
       ELSE /\ pc' = "bounds"
            /\ err' = err
    /\ UNCHANGED <<mesh, density, locals, result, surface, log>>
    /\ UNCHANGED <<module_globals, ui>>

\* lines 76-77
ReadBounds ==
    /\ pc = "bounds"
    /\ bounds' = mesh.bounds
    /\ pc' = "grid"
    /\ UNCHANGED <<mesh, density, x, y, z, grid_points, mask, interior, result, err,
                   surface, log>>
    /\ UNCHANGED <<module_globals, ui>>

\* lines 79-87
BuildGrid ==
    /\ pc = "grid"
    /\ x' = Axis(bounds[1], bounds[2], density)
    /\ y' = Axis(bounds[3], bounds[4], density)
    /\ z' = Axis(bounds[5], bounds[6], density)
    /\ IF Len(x') = 0 \/ Len(y') = 0 \/ Len(z') = 0
       THEN /\ result' = EmptyPolyData
            /\ grid_points' = grid_points
            /\ pc' = "returned"
       ELSE /\ grid_points' = GridPoints(x', y', z')
            /\ result' = result
            /\ pc' = "classify"
    /\ UNCHANGED <<mesh, density, bounds, mask, interior, err, surface, log>>
    /\ UNCHANGED <<module_globals, ui>>

\* lines 89-93, the classifier answering with any mask
Classify ==
    /\ pc = "classify"
    /\ \E m \in Masks(Len(grid_points)) :
          /\ mask' = m
          /\ interior' = Select(grid_points, m)
    /\ pc' = "cubes"
    /\ UNCHANGED <<mesh, density, bounds, x, y, z, grid_points, result, err, surface, log>>
    /\ UNCHANGED <<module_globals, ui>>

\* lines 95-118
BuildCubes ==
    /\ pc = "cubes"
    /\ result' = BuildMesh(interior, density)
    /\ cube_vertices' = IF Len(interior) = 0
                        THEN cube_vertices
                        ELSE AfterCentring(cube_vertices)
    /\ pc' = "returned"
    /\ UNCHANGED <<mesh, density, locals, err, surface, log, cube_faces, ui>>

\* the call is over: its arguments and locals are gone
Return ==
    /\ pc \in {"returned", "raised"}
    /\ pc' = "idle"
    /\ mesh' = NoMesh
    /\ density' = 0
    /\ bounds' = <<>>
    /\ x' = <<>>
    /\ y' = <<>>
    /\ z' = <<>>
    /\ grid_points' = <<>>
    /\ mask' = <<>>
    /\ interior' = <<>>
    /\ result' = EmptyPolyData
    /\ err' = ""
    /\ UNCHANGED <<surface, log>>
    /\ UNCHANGED <<module_globals, ui>>

\* line 91: the point-in-mesh test refuses the surface and its exception propagates
ClassifyRaises ==
    /\ pc = "classify"
    /\ pc' = "raised"
    /\ err' = "RuntimeError: select_enclosed_points"
    /\ UNCHANGED <<mesh, density, locals, result, surface, log>>
    /\ UNCHANGED <<module_globals, ui>>

Next ==
    \/ \E m \in AnyMeshes, d \in Densities : Call(m, d)
    \/ CheckDensity
    \/ ReadBounds
    \/ BuildGrid
    \/ Classify
    \/ ClassifyRaises
    \/ BuildCubes
    \/ Return

Spec == Init /\ [][Next]_vars

(***************************************************************************)
(* Repeated calls on one fixed convex surface with a point-wise test.      *)
(***************************************************************************)
ConvexCorner == <<-1, 2, -3>>

\* the densities the driver tries: one the check refuses, and the positive ones
FixedDensities == {0} \cup PositiveDensities

\* an axis-aligned box and an octahedron (the 1-norm ball) of radius r
ConvexMeshes ==
    {[shape |-> "box", bounds |-> BoxBounds(ConvexCorner, e), on_surface |-> b] :
        e \in (1..MaxSize) \X (1..MaxSize) \X (1..MaxSize),
        b \in BOOLEAN}
    \cup {[shape |-> "octahedron",
           bounds |-> BoxBounds(ConvexCorner, <<2 * r, 2 * r, 2 * r>>),
           on_surface |-> b] :
        r \in 1..(MaxSize \div 2), b \in BOOLEAN}

\* the point-wise test of a convex surface: is p enclosed by m?
Enclosed(m, p) ==
    LET b == m.bounds
        r == (b[2] - b[1]) \div 2
        c == <<b[1] + r, b[3] + r, b[5] + r>>
        dist == Abs(p[1] - c[1]) + Abs(p[2] - c[2]) + Abs(p[3] - c[3])
    IN  IF m.shape = "box"
        THEN IF m.on_surface
             THEN /\ b[1] <= p[1] /\ p[1] <= b[2]
                  /\ b[3] <= p[2] /\ p[2] <= b[4]
                  /\ b[5] <= p[3] /\ p[3] <= b[6]
             ELSE /\ b[1] < p[1] /\ p[1] < b[2]
                  /\ b[3] < p[2] /\ p[2] < b[4]
                  /\ b[5] < p[3] /\ p[3] < b[6]
        ELSE IF m.on_surface THEN dist <= r ELSE dist < r

InitFixed ==
    /\ pc = "idle"
    /\ mesh = NoMesh
    /\ density = 0
    /\ bounds = <<>>
    /\ x = <<>>
    /\ y = <<>>
    /\ z = <<>>
    /\ grid_points = <<>>
    /\ mask = <<>>
    /\ interior = <<>>
    /\ result = EmptyPolyData
    /\ err = ""
    /\ surface \in ConvexMeshes
    /\ log = <<>>
    /\ Idle

\* the driver invokes voxelize_mesh(surface, d)
CallFixed(d) ==
    /\ pc = "idle"
    /\ Len(log) < MaxCalls
    /\ pc' = "entered"
    /\ mesh' = surface
    /\ density' = d
    /\ UNCHANGED <<locals, result, err, surface, log>>
    /\ UNCHANGED <<module_globals, ui>>

\* lines 89-93, the classifier answering point by point
ClassifyEnclosed ==
    /\ pc = "classify"
    /\ mask' = [t \in 1..Len(grid_points) |-> Enclosed(mesh, grid_points[t])]
    /\ interior' = Select(grid_points, mask')
    /\ pc' = "cubes"
    /\ UNCHANGED <<mesh, density, bounds, x, y, z, grid_points, result, err, surface, log>>
    /\ UNCHANGED <<module_globals, ui>>

\* the call is over and the driver notes what it got
ReturnLogged ==
    /\ pc \in {"returned", "raised"}
    /\ log' = Append(log, [density |-> density, raised |-> (pc = "raised"),
                           result |-> result])
    /\ pc' = "idle"
    /\ mesh' = NoMesh
    /\ density' = 0
    /\ bounds' = <<>>
    /\ x' = <<>>
    /\ y' = <<>>
    /\ z' = <<>>
    /\ grid_points' = <<>>
    /\ mask' = <<>>
    /\ interior' = <<>>
    /\ result' = EmptyPolyData
    /\ err' = ""
    /\ UNCHANGED surface
    /\ UNCHANGED <<module_globals, ui>>

NextFixed ==
    \/ \E d \in FixedDensities : CallFixed(d)
    \/ CheckDensity
    \/ ReadBounds
    \/ BuildGrid
    \/ ClassifyEnclosed
    \/ BuildCubes
    \/ ReturnLogged

SpecFixed == InitFixed /\ [][NextFixed]_vars


(***************************************************************************)
(* Vocabulary of the properties.                                           *)
(***************************************************************************)
\* the number of sample-grid points the classifier marked as inside
InsideCount == Cardinality({t \in DOMAIN mask : mask[t]})

IsEmptyMesh(pd) == NPoints(pd) = 0 /\ NTriangles(pd) = 0 /\ Len(pd.faces) = 0

\* p comes before q in the order x slowest, then y, then z fastest
LexLess(p, q) ==
    \/ p[1] < q[1]
    \/ p[1] = q[1] /\ p[2] < q[2]
    \/ p[1] = q[1] /\ p[2] = q[2] /\ p[3] < q[3]

Sub(p, q) == <<p[1] - q[1], p[2] - q[2], p[3] - q[3]>>

Cross(u, v) ==
    <<u[2] * v[3] - u[3] * v[2], u[3] * v[1] - u[1] * v[3], u[1] * v[2] - u[2] * v[1]>>

Dot(u, v) == u[1] * v[1] + u[2] * v[2] + u[3] * v[3]

\* the vertex of the output a 0-based index names
Vertex(pd, i) == pd.points[i + 1]

\* the bounding box has min < max on every axis
NonDegenerate(b) == b[1] < b[2] /\ b[3] < b[4] /\ b[5] < b[6]

\* the bounding box has min = max on at least one axis
ZeroExtent(b) ==
    /\ b[1] <= b[2] /\ b[3] <= b[4] /\ b[5] <= b[6]
    /\ (b[1] = b[2] \/ b[3] = b[4] \/ b[5] = b[6])

GridBuilt == pc \in {"classify", "cubes", "returned"} /\ Len(grid_points) > 0

(***************************************************************************)
(* C1: the returned mesh has exactly 8 n vertices and 12 n triangles, n    *)
(* the number of grid points the classifier marked as inside.              *)
(***************************************************************************)
C1_Counts ==
    pc = "returned" =>
        /\ NPoints(result) = 8 * InsideCount
        /\ Len(result.faces) = 4 * 12 * InsideCount
        /\ NTriangles(result) = 12 * InsideCount
        /\ \A t \in 1..NTriangles(result) : result.faces[4 * (t - 1) + 1] = 3

C1_Witness == pc = "returned" /\ InsideCount >= 2 /\ InsideCount < Len(grid_points)

(***************************************************************************)
(* C2: the 12 triangles of voxel i use only the vertices 8i .. 8i+7, each  *)
(* index being the template index plus 8 i; so every index of the merged   *)
(* mesh lies in [0, vertex_count).                                         *)
(***************************************************************************)
C2_FaceIndices ==
    pc = "returned" =>
        \A i \in 0..(InsideCount - 1) : \A f \in 1..12 : \A a \in 1..3 :
            LET idx == Triangle(result, 12 * i + f)[a]
            IN  /\ idx = CUBE_FACES[f][a] + 8 * i
                /\ idx >= 8 * i
                /\ idx <= 8 * i + 7
                /\ idx >= 0
                /\ idx < NPoints(result)

C2_Witness == pc = "returned" /\ InsideCount >= 3

(***************************************************************************)
(* C3: vertices 8k .. 8k+7 are p + (c - 0.5) * density for the template    *)
(* corners c in template order, p the k-th interior point: the cube        *)
(* centred on p with half-extent density / 2.  With density 1.0 and one    *)
(* interior point the vertices are {-0.5, 0.5}^3 + p.                      *)
(***************************************************************************)
C3_CubeVertices ==
    pc = "returned" /\ InsideCount > 0 =>
        /\ \A k \in 1..Len(interior) : \A c \in 1..8 : \A a \in 1..3 :
              2 * result.points[8 * (k - 1) + c][a]
                  = 2 * interior[k][a]
                    + (IF CUBE_VERTICES[c][a] = One THEN density ELSE -density)
        /\ (density = One /\ Len(interior) = 1) =>
              {result.points[t] : t \in 1..8}
                  = {VecAdd(interior[1], <<sx, sy, sz>>) :
                        sx \in {-Half, Half}, sy \in {-Half, Half}, sz \in {-Half, Half}}

C3_Witness ==
    /\ pc = "returned"
    /\ density = One
    /\ InsideCount = 1
    /\ Len(grid_points) > 1
    /\ Cardinality({result.points[t] : t \in 1..8}) = 8

C5_Claim ==
    pc = "returned" /\ InsideCount > 0 =>
        \A k \in 1..Len(interior) :
            /\ \A f \in 1..12 :
                  LET tri == Triangle(result, 12 * (k - 1) + f)
                      a == Vertex(result, tri[1])
                      b == Vertex(result, tri[2])
                      c == Vertex(result, tri[3])
                  IN  Dot(Cross(Sub(b, a), Sub(c, a)), Sub(a, interior[k])) > 0
            /\ \A axis \in 1..3 : \A side \in {-1, 1} :
                  Cardinality({f \in 1..12 :
                      \A v \in 1..3 :
                          2 * Vertex(result, Triangle(result, 12 * (k - 1) + f)[v])[axis]
                              = 2 * interior[k][axis] + side * density}) = 2

(***************************************************************************)
(* C6: a call with density <= 0 raises ValueError "density must be         *)
(* positive" before the bounding box is read, a grid is built or the       *)
(* classifier is asked, and returns no mesh; once it has failed, the state *)
(* a later call starts from is the one before the failed call.             *)
(***************************************************************************)
C6_RaisedClean ==
    /\ (density <= 0 /\ pc # "idle") =>
           /\ pc \in {"entered", "raised"}
           /\ bounds = <<>>
           /\ x = <<>> /\ y = <<>> /\ z = <<>>
           /\ grid_points = <<>>
           /\ mask = <<>>
           /\ interior = <<>>
           /\ result = EmptyPolyData
    /\ (pc = "raised" /\ density <= 0) => err = "ValueError: density must be positive"
    /\ err = "ValueError: density must be positive" => (pc = "raised" /\ density <= 0)
    /\ pc \in {"bounds", "grid", "classify", "cubes", "returned"} => density > 0 /\ err = ""

C6_InvalidDensity ==
    /\ []C6_RaisedClean
    /\ [][(pc = "entered" /\ density <= 0) => pc' = "raised"]_vars
    /\ [][pc = "raised" => (pc' = "idle" /\ Init')]_vars

C6_Witness == pc = "raised" /\ density = 0 /\ mesh.bounds # EmptyBounds

(***************************************************************************)
(* C7 as claimed: with a bounding box of zero extent on some axis and a    *)
(* positive density the call fails or returns an empty mesh, whatever the  *)
(* classifier answers.                                                     *)
(***************************************************************************)
C7_Claim ==
    (pc = "returned" /\ ZeroExtent(bounds)) => IsEmptyMesh(result)

(***************************************************************************)
(* C8: when the classifier marks no grid point as inside, the call         *)
(* returns the empty mesh and raises nothing.                              *)
(***************************************************************************)
C8_EmptyInterior ==
    /\ (pc = "returned" /\ InsideCount = 0) => (IsEmptyMesh(result) /\ err = "")
    /\ (pc = "cubes" /\ InsideCount = 0) => (Len(interior) = 0 /\ err = "")
    /\ pc = "raised" => mask = <<>>

C8_Witness ==
    /\ pc = "returned"
    /\ Len(mask) >= 2
    /\ InsideCount = 0
    /\ NonDegenerate(bounds)

(***************************************************************************)
(* C9: the sample grid runs with x slowest, then y, then z fastest; the    *)
(* interior points are the masked grid points in that order; voxel k of    *)
(* the output is the cube around the k-th of them.                         *)
(***************************************************************************)
C9_GridOrder ==
    /\ GridBuilt =>
          /\ Len(grid_points) = Len(x) * Len(y) * Len(z)
          /\ \A i \in 1..Len(x) : \A j \in 1..Len(y) : \A k \in 1..Len(z) :
                grid_points[((i - 1) * Len(y) + (j - 1)) * Len(z) + k] = <<x[i], y[j], z[k]>>
          /\ \A s \in 1..Len(grid_points) : \A t \in 1..Len(grid_points) :
                s < t => LexLess(grid_points[s], grid_points[t])
    /\ pc \in {"cubes", "returned"} =>
          /\ Len(interior) = InsideCount
          /\ \A k \in 1..Len(interior) :
                \E t \in 1..Len(grid_points) : mask[t] /\ interior[k] = grid_points[t]
          /\ \A k \in 1..Len(interior) : \A l \in 1..Len(interior) :
                k < l => LexLess(interior[k], interior[l])
    /\ (pc = "returned" /\ InsideCount > 0) =>
          \A k \in 1..Len(interior) :
              /\ \A a \in 1..3 :
                    result.points[8 * (k - 1) + 1][a] + result.points[8 * (k - 1) + 7][a]
                        = 2 * interior[k][a]
              /\ \A f \in 1..12 : \A a \in 1..3 :
                    Triangle(result, 12 * (k - 1) + f)[a] \div 8 = k - 1

C9_Witness ==
    /\ pc = "returned"
    /\ Len(x) >= 2 /\ Len(y) >= 2 /\ Len(z) >= 2
    /\ InsideCount >= 2
    /\ mask[1] = FALSE

(***************************************************************************)
(* C10: on a fixed convex surface with a point-wise classifier, the call   *)
(* with density d / k, k > 1 an integer, produces at least as many cubes   *)
(* as the call with density d.                                             *)
(***************************************************************************)
Cubes(entry) == NPoints(entry.result) \div 8

C10_Refinement ==
    \A i \in DOMAIN log : \A j \in DOMAIN log : \A k \in 2..MaxDensity :
        (/\ ~log[i].raised
         /\ ~log[j].raised
         /\ log[i].density > 0
         /\ log[i].density = k * log[j].density)
            => Cubes(log[j]) >= Cubes(log[i])

C10_Witness ==
    \E i \in DOMAIN log : \E j \in DOMAIN log :
        /\ ~log[i].raised
        /\ ~log[j].raised
        /\ log[i].density = 2 * log[j].density
        /\ Cubes(log[i]) >= 1
        /\ Cubes(log[j]) > Cubes(log[i])

(***************************************************************************)
(* C11: on a fixed surface with a deterministic classifier, two calls      *)
(* with the same density end the same way and return identical vertex and  *)
(* triangle arrays, whatever was called before or between them; a call     *)
(* that is over has left nothing behind: its locals are gone and the       *)
(* module's templates are as they were at import.                          *)
(***************************************************************************)
C11_SameOutcome ==
    \A i \in DOMAIN log : \A j \in DOMAIN log :
        log[i].density = log[j].density =>
            /\ log[i].raised = log[j].raised
            /\ log[i].result.points = log[j].result.points
            /\ log[i].result.faces = log[j].result.faces

WholeBrain == 0

\* lines 126 and 214: mesh.voxelize(spacing=...) raises for region r
VoxelizeRaises(r) == r \in vox_fails

\* lines 124-127: get_voxelized_surface raises when voxelize does, or when
\* extract_geometry().triangulate() does
VoxelizedSurfaceRaises(r) == VoxelizeRaises(r) \/ r \in geom_fails

\* lines 158-206: the sidebar controls are read and the totals start at zero
InitApp ==
    /\ pc = "idle"
    /\ mesh = NoMesh
    /\ density = 0
    /\ bounds = <<>>
    /\ x = <<>>
    /\ y = <<>>
    /\ z = <<>>
    /\ grid_points = <<>>
    /\ mask = <<>>
    /\ interior = <<>>
    /\ result = EmptyPolyData
    /\ err = ""
    /\ surface = NoMesh
    /\ log = <<>>
    /\ cube_vertices = CUBE_VERTICES
    /\ cube_faces = CUBE_FACES
    /\ ui_pc = "metrics"
    /\ \E n \in 0..MaxRegions :
          /\ regions_to_render = [r \in 1..n |-> r]
          /\ vox_fails \in SUBSET (1..n)
          /\ geom_fails \in SUBSET (1..n)
    /\ use_voxels \in BOOLEAN
    /\ show_glass_brain \in BOOLEAN
    /\ root_fails \in BOOLEAN
    /\ loop_i = 1
    /\ measured = <<>>
    /\ fig = <<>>
    /\ st_errors = <<>>
    /\ plotted = FALSE
    /\ uncaught = 0

kernel == <<pc, mesh, density, bounds, x, y, z, grid_points, mask, interior,
            result, err, surface, log, module_globals>>

ui_inputs == <<regions_to_render, use_voxels, show_glass_brain, vox_fails, geom_fails,
               root_fails>>

\* lines 207-227: one pass of the sidebar metrics loop; nothing catches here
MetricsStep ==
    /\ ui_pc = "metrics"
    /\ loop_i <= Len(regions_to_render)
    /\ IF use_voxels /\ VoxelizeRaises(regions_to_render[loop_i])
       THEN /\ uncaught' = regions_to_render[loop_i]
            /\ ui_pc' = "crashed"
            /\ UNCHANGED <<loop_i, measured>>
       ELSE /\ measured' = Append(measured, regions_to_render[loop_i])
            /\ loop_i' = loop_i + 1
            /\ UNCHANGED <<ui_pc, uncaught>>
    /\ UNCHANGED <<kernel, ui_inputs, fig, st_errors, plotted>>

\* lines 228-240: the metrics are shown and the figure is created
MetricsEnd ==
    /\ ui_pc = "metrics"
    /\ loop_i > Len(regions_to_render)
    /\ ui_pc' = "glass"
    /\ UNCHANGED <<kernel, ui_inputs, loop_i, measured, fig, st_errors, plotted, uncaught>>

\* lines 242-273: the whole-brain trace; a failure is shown and st.stop() ends the run
GlassBrain ==
    /\ ui_pc = "glass"
    /\ IF show_glass_brain /\ use_voxels /\ root_fails
       THEN /\ st_errors' = Append(st_errors, WholeBrain)
            /\ ui_pc' = "stopped"
            /\ UNCHANGED <<fig, loop_i>>
       ELSE /\ fig' = IF show_glass_brain THEN Append(fig, WholeBrain) ELSE fig
            /\ ui_pc' = "render"
            /\ loop_i' = 1
            /\ UNCHANGED st_errors
    /\ UNCHANGED <<kernel, ui_inputs, measured, plotted, uncaught>>

\* lines 276-346: one pass of the render loop, inside try / except Exception
RenderStep ==
    /\ ui_pc = "render"
    /\ loop_i <= Len(regions_to_render)
    /\ IF use_voxels /\ VoxelizedSurfaceRaises(regions_to_render[loop_i])
       THEN /\ st_errors' = Append(st_errors, regions_to_render[loop_i])
            /\ UNCHANGED fig
       ELSE /\ fig' = Append(fig, regions_to_render[loop_i])
            /\ UNCHANGED st_errors
    /\ loop_i' = loop_i + 1
    /\ UNCHANGED <<kernel, ui_inputs, ui_pc, measured, plotted, uncaught>>

\* lines 348-375: the layout is set and the figure plotted
PlotFigure ==
    /\ ui_pc = "render"
    /\ loop_i > Len(regions_to_render)
    /\ plotted' = TRUE
    /\ ui_pc' = "done"
    /\ UNCHANGED <<kernel, ui_inputs, loop_i, measured, fig, st_errors, uncaught>>

NextApp ==
    \/ MetricsStep
    \/ MetricsEnd
    \/ GlassBrain
    \/ RenderStep
    \/ PlotFigure

SpecApp == InitApp /\ [][NextApp]_vars

\* v is an element of the sequence sq
InSeq(v, sq) == \E t \in 1..Len(sq) : sq[t] = v

(***************************************************************************)
(* C12 as claimed: with the voxel view on and several regions to render,   *)
(* a region whose voxelization raises gets an error message of its own     *)
(* and the run goes on: no exception leaves main(), the other regions are  *)
(* processed in both loops, and the figure is plotted.  (A whole-brain     *)
(* failure, which ends the run by st.stop(), is set aside.)                *)
(***************************************************************************)
C12_Claim ==
    (use_voxels /\ Len(regions_to_render) >= 2 /\ ~(show_glass_brain /\ root_fails)) =>
        /\ uncaught = 0
        /\ ui_pc # "crashed"
        /\ ui_pc = "done" =>
              /\ plotted
              /\ \A r \in 1..Len(regions_to_render) :
                    /\ VoxelizeRaises(r) => InSeq(r, st_errors)
                    /\ ~VoxelizeRaises(r) => InSeq(r, measured)
                    /\ ~VoxelizedSurfaceRaises(r) => InSeq(r, fig)

====
